---------------------------- MODULE Spec2Model ----------------------------
(***************************************************************************)
(* Range-aware download handlers of router/router_download.go:             *)
(* parseRangeHeader, and the HEAD / GET handlers for backups and files.    *)
(*                                                                         *)
(* A Go string is a sequence of one-character strings.  A parse result is  *)
(* a record: NoRange (nil, nil), a rangeSpec, or an error with its text.   *)
(***************************************************************************)
EXTENDS Integers, Sequences, FiniteSets, TLC

VARIABLES
    rangeHeader,    \* parseRangeHeader's first argument
    fileSize,       \* parseRangeHeader's second argument
    result,         \* what parseRangeHeader returned, Pending before the call
    disk,           \* what lies behind the good token of each kind
    consumed,       \* the token store: unique ids already seen by IsUniqueRequest
    spent,          \* history: ids for which a GET's IsUniqueRequest returned true
    pc,             \* per connection: where its handler stands
    req,            \* per connection: the request being handled
    resp,           \* per connection: what the handler has put on the gin.Context
    handle          \* per connection: the handler's os.File / ufs.File

parseVars == <<rangeHeader, fileSize, result>>

handlerVars == <<disk, consumed, spent, pc, req, resp, handle>>

vars == <<rangeHeader, fileSize, result, disk, consumed, spent, pc, req, resp, handle>>

-----------------------------------------------------------------------------
(* Bounds of the model *)

\* longest text after "bytes=" that the parser is run on exhaustively
MaxBody == 4

\* resources of every size 0..MaxSize
MaxSize == 2

\* one more resource size, large enough for two-digit offsets
LargeSize == 12

-----------------------------------------------------------------------------
(* Go strings *)


BytesEq == <<"b", "y", "t", "e", "s", "=">>

Digits == {"0", "1", "2", "3", "4", "5", "6", "7", "8", "9"}

DigitVal(c) ==
    CASE c = "0" -> 0 [] c = "1" -> 1 [] c = "2" -> 2 [] c = "3" -> 3
      [] c = "4" -> 4 [] c = "5" -> 5 [] c = "6" -> 6 [] c = "7" -> 7
      [] c = "8" -> 8 [] c = "9" -> 9

DigitChar(d) ==
    CASE d = 0 -> "0" [] d = 1 -> "1" [] d = 2 -> "2" [] d = 3 -> "3"
      [] d = 4 -> "4" [] d = 5 -> "5" [] d = 6 -> "6" [] d = 7 -> "7"
      [] d = 8 -> "8" [] d = 9 -> "9"

\* strings.HasPrefix
HasPrefix(s, p) == Len(s) >= Len(p) /\ SubSeq(s, 1, Len(p)) = p

\* strings.HasSuffix
HasSuffix(s, p) ==
    Len(s) >= Len(p) /\ SubSeq(s, Len(s) - Len(p) + 1, Len(s)) = p

\* strings.TrimPrefix
TrimPrefix(s, p) ==
    IF HasPrefix(s, p) THEN SubSeq(s, Len(p) + 1, Len(s)) ELSE s

\* strings.Contains, for a one-character separator
Contains(s, c) == \E i \in 1..Len(s) : s[i] = c

\* strings.Split, for a one-character separator: the pieces between the
\* separators, so Len(Split(s, c)) is the number of separators plus one
RECURSIVE Split(_, _)
Split(s, c) ==
    IF ~Contains(s, c)
    THEN <<s>>
    ELSE LET i == CHOOSE k \in 1..Len(s) :
                    s[k] = c /\ \A j \in 1..(k - 1) : s[j] # c
         IN  <<SubSeq(s, 1, i - 1)>> \o Split(SubSeq(s, i + 1, Len(s)), c)

\* the white space strings.TrimSpace removes (the space and the tab stand
\* for the class)
WhiteSpace == {" ", "\t"}

\* strings.TrimSpace
RECURSIVE TrimSpace(_)
TrimSpace(s) ==
    IF Len(s) = 0 THEN s
    ELSE IF s[1] \in WhiteSpace THEN TrimSpace(Tail(s))
    ELSE IF s[Len(s)] \in WhiteSpace THEN TrimSpace(SubSeq(s, 1, Len(s) - 1))
    ELSE s

-----------------------------------------------------------------------------
(* strconv.ParseInt(s, 10, 64) and strconv.FormatInt(n, 10) *)

\* the decimal digits of 1<<63 - 1 and of 1<<63
MaxInt64Digits ==
    <<"9","2","2","3","3","7","2","0","3","6","8","5","4","7","7","5","8","0","7">>

MinInt64Digits ==
    <<"9","2","2","3","3","7","2","0","3","6","8","5","4","7","7","5","8","0","8">>

RECURSIVE StripZeros(_)
StripZeros(ds) ==
    IF Len(ds) > 1 /\ ds[1] = "0" THEN StripZeros(Tail(ds)) ELSE ds

\* a > b for digit strings of the same length
RECURSIVE DigitsGreater(_, _)
DigitsGreater(a, b) ==
    IF Len(a) = 0 THEN FALSE
    ELSE IF DigitVal(a[1]) # DigitVal(b[1]) THEN DigitVal(a[1]) > DigitVal(b[1])
    ELSE DigitsGreater(Tail(a), Tail(b))

\* the magnitude does not fit 64 signed bits
OutOfRange(ds, neg) ==
    LET sig   == StripZeros(ds)
        limit == IF neg THEN MinInt64Digits ELSE MaxInt64Digits
    IN  \/ Len(sig) > Len(limit)
        \/ Len(sig) = Len(limit) /\ DigitsGreater(sig, limit)

RECURSIVE DigitsValue(_)
DigitsValue(ds) ==
    IF Len(ds) = 0 THEN 0
    ELSE 10 * DigitsValue(SubSeq(ds, 1, Len(ds) - 1)) + DigitVal(ds[Len(ds)])

\* strconv.ParseInt(s, 10, 64): an optional sign, then one or more decimal
\* digits, the value within 64 signed bits; anything else is an error
ParseInt(s) ==
    LET signed == Len(s) > 0 /\ s[1] \in {"+", "-"}
        neg    == Len(s) > 0 /\ s[1] = "-"
        ds     == IF signed THEN Tail(s) ELSE s
    IN  IF Len(ds) = 0 \/ \E i \in 1..Len(ds) : ds[i] \notin Digits
        THEN [err |-> "invalid syntax", val |-> 0]
        ELSE IF OutOfRange(ds, neg)
        THEN [err |-> "value out of range", val |-> 0]
        ELSE [err |-> "", val |-> IF neg THEN 0 - DigitsValue(ds)
                                         ELSE DigitsValue(ds)]

\* strconv.FormatInt(n, 10) and fmt's %d
RECURSIVE FormatInt(_)
FormatInt(n) ==
    IF n < 0 THEN <<"-">> \o FormatInt(0 - n)
    ELSE IF n < 10 THEN <<DigitChar(n)>>
    ELSE FormatInt(n \div 10) \o <<DigitChar(n % 10)>>

-----------------------------------------------------------------------------
(* parseRangeHeader *)

NoRange == [kind |-> "none"]

RangeErr(msg) == [kind |-> "error", err |-> msg]

\* the rangeSpec with its size one short
RangeSpecLengthShort(s, e) ==
    [kind |-> "range", start |-> s, end |-> e, size |-> e - s]

\* lines 92-96: the rangeSpec returned
RangeSpec(s, e) == [kind |-> "range", start |-> s, end |-> e, size |-> e - s + 1]

\* the first range without the TrimSpace of line 44
FirstRangeUntrimmed(ranges) ==
    IF Contains(ranges, ",") THEN Split(ranges, ",")[1] ELSE ranges

\* lines 41-45: of several comma-separated ranges, the first one, trimmed
FirstRange(ranges) ==
    IF Contains(ranges, ",") THEN TrimSpace(Split(ranges, ",")[1]) ELSE ranges

\* the suffix start without the clamp of lines 56-57
SuffixStartUnclamped(suffixLength, size) == size - suffixLength

\* lines 56-60: where a suffix range starts
SuffixStart(suffixLength, size) ==
    IF suffixLength >= size THEN 0 ELSE size - suffixLength

\* the end of an open range taken as fileSize
LastByteIsSize(size) == size

\* line 68 (and 61): an open or suffix range ends at the last byte
LastByte(size) == size - 1

\* the bounds check with > for >=
ValidateInclusiveSize(start, end, size) ==
    IF start < 0 \/ start > size \/ end < start \/ end > size
    THEN RangeErr("range hors limites")
    ELSE RangeSpec(start, end)

\* the bounds check without end < start
ValidateUnordered(start, end, size) ==
    IF start < 0 \/ start >= size \/ end >= size
    THEN RangeErr("range hors limites")
    ELSE RangeSpec(start, end)

\* the bounds check without end >= fileSize
ValidateOpenEnded(start, end, size) ==
    IF start < 0 \/ start >= size \/ end < start
    THEN RangeErr("range hors limites")
    ELSE RangeSpec(start, end)

\* lines 87-96: the bounds check and the rangeSpec built
Validate(start, end, size) ==
    IF start < 0 \/ start >= size \/ end < start \/ end >= size
    THEN RangeErr("range hors limites")
    ELSE RangeSpec(start, end)

\* lines 50-61: "-500"
SuffixRange(ranges, size) ==
    LET n == ParseInt(Tail(ranges))
    IN  IF n.err # "" THEN RangeErr("suffix range invalide")
        ELSE Validate(SuffixStart(n.val, size), LastByte(size), size)

\* lines 62-68: "500-"
OpenRange(ranges, size) ==
    LET n == ParseInt(SubSeq(ranges, 1, Len(ranges) - 1))
    IN  IF n.err # "" THEN RangeErr("start range invalide")
        ELSE Validate(n.val, LastByte(size), size)

\* lines 69-85: "500-999"
ClosedRange(ranges, size) ==
    LET parts == Split(ranges, "-")
    IN  IF Len(parts) # 2 THEN RangeErr("format range invalide")
        ELSE LET s == ParseInt(parts[1])
                 e == ParseInt(parts[2])
             IN  IF s.err # "" THEN RangeErr("start range invalide")
                 ELSE IF e.err # "" THEN RangeErr("end range invalide")
                 ELSE Validate(s.val, e.val, size)

parseRangeHeader(header, size) ==
    IF header = <<>> THEN NoRange
    ELSE IF ~HasPrefix(header, BytesEq) THEN RangeErr("format range invalide")
    ELSE LET ranges == FirstRange(TrimPrefix(header, BytesEq))
         IN  IF HasPrefix(ranges, <<"-">>) THEN SuffixRange(ranges, size)
             ELSE IF HasSuffix(ranges, <<"-">>) THEN OpenRange(ranges, size)
             ELSE ClosedRange(ranges, size)

-----------------------------------------------------------------------------
(* The parser's inputs *)

Alphabet == {"0", "1", "2", "-", ",", " ", "+", "x"}

RECURSIVE StringsOfLen(_)
StringsOfLen(n) ==
    IF n = 0 THEN {<<>>}
    ELSE {s \o <<c>> : s \in StringsOfLen(n - 1), c \in Alphabet}

Bodies == UNION {StringsOfLen(n) : n \in 0..MaxBody}

\* a numeral past 64 bits
Huge == [i \in 1..20 |-> "9"]

Headers ==
    {<<>>}
      \cup {BytesEq \o b : b \in Bodies}
      \cup {b \in Bodies : Len(b) \in 1..2}
      \cup {<<"b", "y", "t", "e", "s">>, <<"B">> \o Tail(BytesEq) \o <<"0", "-">>}
      \cup {BytesEq \o <<"-">> \o Huge, BytesEq \o Huge \o <<"-">>,
            BytesEq \o <<"0", "-">> \o Huge, BytesEq \o Huge \o <<"-", "0">>}

Sizes == (0..MaxSize) \cup {LargeSize}

Pending == [kind |-> "pending"]

-----------------------------------------------------------------------------
(* The world of the handlers: tokens, servers, and what is on disk *)

\* connections being served at the same time
Conns == {"c1", "c2"}

Kinds == {"backup", "file"}

\* the raw tokens a client may present to an endpoint of the kind: a good
\* one, one whose signature fails, one naming a server this node does not
\* run and, for backups, one whose backup id is no UUID
Tokens(kind) ==
    IF kind = "backup" THEN {"good", "forged", "stray", "baduuid"}
    ELSE {"good", "forged", "stray"}

\* tokens.ParseToken into a BackupPayload / FilePayload
ParseToken(kind, raw) ==
    IF raw = "forged"
    THEN [err |-> "token is invalid"]
    ELSE [err        |-> "",
          ServerUuid |-> IF raw = "stray" THEN "elsewhere" ELSE "srv",
          Target     |-> IF raw = "baduuid" THEN "not-a-uuid" ELSE "res",
          UniqueId   |-> <<kind, raw>>]

\* manager.Get: whether the node runs the server
ManagerGet(serverUuid) == serverUuid = "srv"

\* uuid.Parse
UuidParse(s) == IF s = "not-a-uuid" THEN "invalid UUID" ELSE ""

\* token.IsUniqueRequest: true the first time an id is seen, and the id is
\* remembered
IsUniqueRequest(id, store) ==
    [unique |-> id \notin store, store |-> store \cup {id}]

\* what may lie behind a token's target
DiskStates(kind) ==
    {[type |-> "missing", size |-> 0], [type |-> "dir", size |-> MaxSize]}
      \cup {[type |-> "file", size |-> s] : s \in 0..MaxSize}
      \cup (IF kind = "backup"
            THEN {[type |-> "locerr", size |-> 0], [type |-> "openerr", size |-> 1]}
            ELSE {[type |-> "ioerr", size |-> 0]})

PlainFile == [type |-> "file", size |-> 1]

\* one kind's target varies, the other's is a plain file
Worlds ==
    {[backup |-> b, file |-> PlainFile] : b \in DiskStates("backup")}
      \cup {[backup |-> PlainFile, file |-> f] : f \in DiskStates("file")}

\* os.FileInfo / filesystem.Stat of the target
Stat(d) ==
    [size |-> d.size, isDir |-> d.type = "dir", name |-> "name", modTime |-> "mtime"]

\* backup.LocateLocal: the backup and its os.FileInfo, or an error
LocateLocal(d) ==
    IF d.type = "missing" THEN [err |-> "ErrNotExist"]
    ELSE IF d.type = "locerr" THEN [err |-> "locate failed"]
    ELSE [err |-> "", st |-> Stat(d)]

\* os.Open(b.Path())
OsOpen(d) == IF d.type = "openerr" THEN "open failed" ELSE ""

\* s.Filesystem().File(path): the open file and its Stat, or an error
FilesystemFile(d) ==
    IF d.type = "missing" THEN [err |-> "ErrNotExist"]
    ELSE IF d.type = "ioerr" THEN [err |-> "file failed"]
    ELSE [err |-> "", st |-> Stat(d)]

-----------------------------------------------------------------------------
(* gin.Context: what a handler has answered so far *)

HeaderNames ==
    {"Content-Length", "Content-Disposition", "Content-Type", "Accept-Ranges",
     "Last-Modified", "Content-Range"}

\* a header that was not set reads as the empty string
EmptyResp ==
    [status  |-> 0,                               \* 0: no status set
     json    |-> "",                              \* the JSON body's "error"
     header  |-> [h \in HeaderNames |-> <<>>],
     from    |-> 0,                               \* offset of the first body byte
     sent    |-> 0,                               \* body bytes written
     buffer  |-> 0,                               \* bufio.NewReaderSize's size
     aborted |-> FALSE,
     errors  |-> <<>>,                            \* c.Error, by CaptureAndAbort
     logged  |-> FALSE,                           \* the Debug line for a failed copy
     exit    |-> ""]                              \* history: where the handler left

ResourceNotFound == "The requested resource was not found on this server."

BackupNotFound == "The requested backup was not found on this server."

\* c.AbortWithStatusJSON(code, gin.H{"error": msg})
AbortWithStatusJSON(w, code, msg) ==
    [w EXCEPT !.status = code, !.json = msg, !.aborted = TRUE]

\* c.AbortWithStatus(code)
AbortWithStatus(w, code) == [w EXCEPT !.status = code, !.aborted = TRUE]

\* middleware.CaptureAndAbort(c, err): abort, and leave err to the error
\* middleware
CaptureAndAbort(w, err) ==
    [w EXCEPT !.aborted = TRUE, !.errors = Append(@, err)]

\* c.Header(key, value)
Header(w, key, value) == [w EXCEPT !.header[key] = value]

\* c.Status(code)
Status(w, code) == [w EXCEPT !.status = code]

Left(w, where) == [w EXCEPT !.exit = where]

\* how a stage of a handler ends: the next stage, the answer so far, and
\* whether the stage opened the resource
Stage(next, w, opened) == [next |-> next, resp |-> w, opened |-> opened]

-----------------------------------------------------------------------------
(* The stages of the handlers *)

\* a Go string the model does not look into
Text(s) == <<s>>

\* lines 104-117 and 263-277: a HEAD's token and server
HeadToken(kind, raw) ==
    LET token == ParseToken(kind, raw)
    IN  IF token.err # ""
        THEN Stage("done", Left(CaptureAndAbort(EmptyResp, token.err), "token"), FALSE)
        ELSE IF ~ManagerGet(token.ServerUuid)
        THEN Stage("done",
                   Left(AbortWithStatusJSON(EmptyResp, 404, ResourceNotFound), "server"),
                   FALSE)
        ELSE Stage("open", EmptyResp, FALSE)

\* a HEAD with the condition of line 169 in place of that of line 112
HeadStoreCopiedFromGet(ok, id, store) ==
    IF ok THEN IsUniqueRequest(id, store).store ELSE store

\* lines 111-117 and 270-277: a HEAD looks the server up and never asks
\* IsUniqueRequest, so it hands the token store back as it found it
HeadStore(ok, id, store) == store

\* a GET with the condition of line 112 in place of that of line 169
GetRejectedServerOnly(ok, unique) == ~ok

\* lines 169 and 318: !ok || !token.IsUniqueRequest()
GetRejected(ok, unique) == ~ok \/ ~unique

\* a GET that never asks IsUniqueRequest
UniqueUnasked(ok, id, store) == [unique |-> TRUE, store |-> store]

\* a GET that asks IsUniqueRequest whether or not the server was found
UniqueAlwaysAsked(ok, id, store) == IsUniqueRequest(id, store)

\* lines 169 and 318: || evaluates IsUniqueRequest only when the server was
\* found
UniqueIfServer(ok, id, store) ==
    IF ok THEN IsUniqueRequest(id, store) ELSE [unique |-> FALSE, store |-> store]

\* lines 161-174 and 309-323: a GET's token, server and single use; the
\* stage and the token store it leaves
GetTokenStage(kind, raw, store) ==
    LET token == ParseToken(kind, raw)
    IN  IF token.err # ""
        THEN [stage |-> Stage("done",
                              Left(CaptureAndAbort(EmptyResp, token.err), "token"),
                              FALSE),
              store |-> store]
        ELSE LET ok == ManagerGet(token.ServerUuid)
                 u  == UniqueIfServer(ok, token.UniqueId, store)
             IN  IF GetRejected(ok, u.unique)
                 THEN [stage |-> Stage("done",
                                       Left(AbortWithStatusJSON(EmptyResp, 404,
                                                                ResourceNotFound),
                                            IF ok THEN "replay" ELSE "server"),
                                       FALSE),
                       store |-> u.store]
                 ELSE [stage |-> Stage("open", EmptyResp, FALSE), store |-> u.store]

\* lines 176-201 (GET) and 119-144 (HEAD): the backup is located and opened
OpenBackup(w, token, d, next) ==
    IF UuidParse(token.Target) # ""
    THEN Stage("done", Left(CaptureAndAbort(w, UuidParse(token.Target)), "uuid"), FALSE)
    ELSE LET loc == LocateLocal(d)
         IN  IF loc.err = "ErrNotExist"
             THEN Stage("done",
                        Left(AbortWithStatusJSON(w, 404, BackupNotFound), "missing"),
                        FALSE)
             ELSE IF loc.err # ""
             THEN Stage("done", Left(CaptureAndAbort(w, loc.err), "locate"), FALSE)
             ELSE IF OsOpen(d) # ""
             THEN Stage("done", Left(CaptureAndAbort(w, OsOpen(d)), "open"), FALSE)
             ELSE Stage(next, w, TRUE)

\* lines 325-331 (GET) and 279-285 (HEAD): the file is opened
OpenFile(w, d, next) ==
    LET f == FilesystemFile(d)
    IN  IF f.err # ""
        THEN Stage("done",
                   Left(CaptureAndAbort(w, f.err),
                        IF f.err = "ErrNotExist" THEN "missing" ELSE "open"),
                   FALSE)
        ELSE Stage(next, w, TRUE)

OpenResource(kind, w, token, d, next) ==
    IF kind = "backup" THEN OpenBackup(w, token, d, next) ELSE OpenFile(w, d, next)

\* lines 287-293 and 333-339: the file handlers turn a directory away; the
\* backup handlers have no such test
RejectsDirectory(kind, st) == kind = "file" /\ st.isDir

\* "attachment; filename=" + strconv.Quote(st.Name())
Disposition(st) == <<"attachment; filename=", "\"", st.name, "\"">>

\* lines 146-153 and 295-302: the headers and the status of a HEAD
HeadHeaders(w, st) ==
    Status(
      Header(
        Header(
          Header(
            Header(
              Header(w, "Content-Length", FormatInt(st.size)),
              "Content-Disposition", Disposition(st)),
            "Content-Type", Text("application/octet-stream")),
          "Accept-Ranges", Text("bytes")),
        "Last-Modified", Text(st.modTime)),
      200)

\* lines 146-153 and 287-302: what a HEAD answers once the resource is open
HeadServe(kind, st) ==
    IF RejectsDirectory(kind, st)
    THEN Left(AbortWithStatusJSON(EmptyResp, 404, ResourceNotFound), "dir")
    ELSE Left(HeadHeaders(EmptyResp, st), "head")

\* Range invalide answered without the Content-Range header
RangeNotSatisfiableBare(w, size) == AbortWithStatus(w, 416)

\* lines 209-214 and 347-352: Range invalide
RangeNotSatisfiable(w, size) ==
    AbortWithStatus(
      Header(w, "Content-Range",
             <<"b", "y", "t", "e", "s", " ", "*", "/">> \o FormatInt(size)),
      416)

\* lines 216-219 and 354-357: Headers de base
BaseHeaders(w, st) ==
    Header(
      Header(
        Header(w, "Content-Disposition", Disposition(st)),
        "Content-Type", Text("application/octet-stream")),
      "Accept-Ranges", Text("bytes"))

\* Partial Content with the total size as its Content-Length
PartialHeadersLengthOfTotal(w, rs, size) ==
    Status(
      Header(
        Header(w, "Content-Range",
               <<"b", "y", "t", "e", "s", " ">> \o FormatInt(rs.start) \o <<"-">>
                 \o FormatInt(rs.end) \o <<"/">> \o FormatInt(size)),
        "Content-Length", FormatInt(size)),
      206)

\* lines 223-225 and 361-363: Partial Content
PartialHeaders(w, rs, size) ==
    Status(
      Header(
        Header(w, "Content-Range",
               <<"b", "y", "t", "e", "s", " ">> \o FormatInt(rs.start) \o <<"-">>
                 \o FormatInt(rs.end) \o <<"/">> \o FormatInt(size)),
        "Content-Length", FormatInt(rs.size)),
      206)

\* Fichier complet without its Content-Length
FullHeadersNoLength(w, size) == Status(w, 200)

\* lines 241-242 and 379-380: Fichier complet
FullHeaders(w, size) == Status(Header(w, "Content-Length", FormatInt(size)), 200)

\* lines 245-248 and 383-386: bufferSize
BufferSize(kind, size) ==
    IF kind = "backup"
    THEN IF size > 1024 * 1024 * 1024 THEN 2 * 1024 * 1024 ELSE 64 * 1024
    ELSE IF size > 100 * 1024 * 1024 THEN 1024 * 1024 ELSE 64 * 1024

\* lines 203-225, 239-250 and 333-363, 377-388: what a GET answers before it
\* touches the body, and the copy it then has to make (n bytes from offset
\* from; ranged: after a Seek)
Respond(kind, st, header) ==
    IF RejectsDirectory(kind, st)
    THEN [resp |-> Left(AbortWithStatusJSON(EmptyResp, 404, ResourceNotFound), "dir"),
          copy |-> FALSE, seek |-> FALSE, from |-> 0, n |-> 0]
    ELSE LET rs == parseRangeHeader(header, st.size)
         IN  IF rs.kind = "error"
             THEN [resp |-> Left(RangeNotSatisfiable(EmptyResp, st.size), "range"),
                   copy |-> FALSE, seek |-> FALSE, from |-> 0, n |-> 0]
             ELSE IF rs.kind = "range"
             THEN [resp |-> PartialHeaders(BaseHeaders(EmptyResp, st), rs, st.size),
                   copy |-> TRUE, seek |-> TRUE, from |-> rs.start, n |-> rs.size]
             ELSE [resp |-> [FullHeaders(BaseHeaders(EmptyResp, st), st.size)
                               EXCEPT !.buffer = BufferSize(kind, st.size)],
                   copy |-> TRUE, seek |-> FALSE, from |-> 0, n |-> st.size]

\* lines 228-231 and 366-369: the Seek failed
SeekFailed(w) == Left(CaptureAndAbort(w, "seek failed"), "seek")

\* a short copy handed to CaptureAndAbort instead of the Debug log
CopiedAborting(w, from, k, n) ==
    Left(IF k < n
         THEN CaptureAndAbort([w EXCEPT !.from = from, !.sent = k], "write failed")
         ELSE [w EXCEPT !.from = from, !.sent = k],
         IF k < n THEN "cut" ELSE "sent")

\* lines 233-238, 251-255 and 371-376, 389-393: k of the n bytes reached the
\* client; a short copy is logged at Debug and nothing else
Copied(w, from, k, n) ==
    Left([w EXCEPT !.from = from, !.sent = k, !.logged = k < n],
         IF k < n THEN "cut" ELSE "sent")

\* how many bytes a read of the open resource can deliver: reading a
\* directory fails at once
Readable(st, n) == IF st.isDir THEN 0 ELSE n

-----------------------------------------------------------------------------
(* The handlers, one connection at a time *)

\* the Range headers a GET may carry
GetHeaders ==
    {<<>>,
     BytesEq \o <<"0", "-", "0">>,
     BytesEq \o <<"1", "-">>,
     BytesEq \o <<"-", "1">>,
     BytesEq \o <<"0", "-", "1", ",", "2", "-", "2">>,
     BytesEq \o <<"9", "-">>,
     BytesEq \o <<"-", "0">>,
     <<"x">>}

NoReq ==
    [method |-> "", kind |-> "", token |-> "", range |-> <<>>,
     fresh |-> FALSE, afterHead |-> FALSE]

NoHandle == [open |-> FALSE, opens |-> 0]

\* the handler of connection c moves to the stage s
Advance(c, s) ==
    /\ pc' = [pc EXCEPT ![c] = s.next]
    /\ resp' = [resp EXCEPT ![c] = s.resp]
    /\ handle' = [handle EXCEPT ![c] =
                    IF s.opened THEN [open |-> TRUE, opens |-> @.opens + 1] ELSE @]

\* a HEAD answered 200 for the token on another connection
HeadAnswered(c, kind, raw) ==
    \E o \in Conns \ {c} :
        /\ pc[o] = "done"
        /\ req[o].method = "HEAD" /\ req[o].kind = kind /\ req[o].token = raw
        /\ resp[o].status = 200

\* getDownloadBackupHead / getDownloadFileHead up to the deferred Close
HeadOpen(c) ==
    /\ pc[c] = "idle"
    /\ \E kind \in Kinds : \E raw \in Tokens(kind) :
         LET s     == HeadToken(kind, raw)
             token == ParseToken(kind, raw)
         IN  /\ consumed' =
                   IF token.err # ""
                   THEN consumed
                   ELSE HeadStore(ManagerGet(token.ServerUuid), token.UniqueId, consumed)
             /\ req' = [req EXCEPT ![c] =
                          [NoReq EXCEPT !.method = "HEAD", !.kind = kind, !.token = raw]]
             /\ IF s.next = "done"
                THEN Advance(c, s)
                ELSE Advance(c, OpenResource(kind, s.resp, token, disk[kind], "head"))
    /\ UNCHANGED <<disk, spent, parseVars>>

\* getDownloadBackupHead / getDownloadFileHead from the deferred Close on
HeadAnswer(c) ==
    /\ pc[c] = "head"
    /\ Advance(c, Stage("return", HeadServe(req[c].kind, Stat(disk[req[c].kind])), FALSE))
    /\ UNCHANGED <<disk, consumed, spent, req, parseVars>>

\* getDownloadBackup / getDownloadFile: the token, the server, the single use
GetToken(c) ==
    /\ pc[c] = "idle"
    /\ \E kind \in Kinds : \E raw \in Tokens(kind) :
         LET t == GetTokenStage(kind, raw, consumed)
         IN  /\ req' = [req EXCEPT ![c] =
                          [NoReq EXCEPT !.method = "GET", !.kind = kind, !.token = raw,
                                        !.fresh = <<kind, raw>> \notin spent,
                                        !.afterHead = HeadAnswered(c, kind, raw)]]
             /\ Advance(c, t.stage)
             /\ consumed' = t.store
             /\ spent' = IF t.stage.next = "open"
                         THEN spent \cup {<<kind, raw>>} ELSE spent
    /\ UNCHANGED <<disk, parseVars>>

\* getDownloadBackup / getDownloadFile: the resource is located and opened
GetOpen(c) ==
    /\ pc[c] = "open"
    /\ Advance(c, OpenResource(req[c].kind, resp[c],
                               ParseToken(req[c].kind, req[c].token),
                               disk[req[c].kind], "serve"))
    /\ UNCHANGED <<disk, consumed, spent, req, parseVars>>

\* getDownloadBackup / getDownloadFile: the Range header, the response
\* headers, the body
GetServe(c) ==
    /\ pc[c] = "serve"
    /\ \E header \in GetHeaders : \E seekFails \in BOOLEAN : \E k \in 0..MaxSize :
         LET st   == Stat(disk[req[c].kind])
             plan == Respond(req[c].kind, st, header)
         IN  /\ req' = [req EXCEPT ![c].range = header]
             /\ IF ~plan.copy
                THEN /\ ~seekFails /\ k = 0
                     /\ Advance(c, Stage("return", plan.resp, FALSE))
                ELSE IF plan.seek /\ seekFails
                THEN /\ k = 0
                     /\ Advance(c, Stage("return", SeekFailed(plan.resp), FALSE))
                ELSE /\ ~seekFails
                     /\ k <= Readable(st, plan.n)
                     /\ Advance(c, Stage("return",
                                         Copied(plan.resp, plan.from, k, plan.n),
                                         FALSE))
    /\ UNCHANGED <<disk, consumed, spent, parseVars>>

\* a handler that returns without the deferred Close
ReturnLeavingOpen(c) ==
    /\ pc[c] = "return"
    /\ pc' = [pc EXCEPT ![c] = "done"]
    /\ UNCHANGED <<disk, consumed, spent, req, resp, handle, parseVars>>

\* defer f.Close() runs as the handler returns
Return(c) ==
    /\ pc[c] = "return"
    /\ pc' = [pc EXCEPT ![c] = "done"]
    /\ handle' = [handle EXCEPT ![c].open = FALSE]
    /\ UNCHANGED <<disk, consumed, spent, req, resp, parseVars>>

\* the connection takes its next request
NextRequest(c) ==
    /\ pc[c] = "done"
    /\ pc' = [pc EXCEPT ![c] = "idle"]
    /\ req' = [req EXCEPT ![c] = NoReq]
    /\ resp' = [resp EXCEPT ![c] = EmptyResp]
    /\ handle' = [handle EXCEPT ![c] = NoHandle]
    /\ UNCHANGED <<disk, consumed, spent, parseVars>>

Quiet ==
    /\ consumed = {}
    /\ spent = {}
    /\ pc = [c \in Conns |-> "idle"]
    /\ req = [c \in Conns |-> NoReq]
    /\ resp = [c \in Conns |-> EmptyResp]
    /\ handle = [c \in Conns |-> NoHandle]

Init ==
    /\ disk \in Worlds
    /\ Quiet
    /\ rangeHeader = <<>>
    /\ fileSize = 0
    /\ result = Pending

Next ==
    \E c \in Conns :
        \/ HeadOpen(c)
        \/ HeadAnswer(c)
        \/ GetToken(c)
        \/ GetOpen(c)
        \/ GetServe(c)
        \/ Return(c)
        \/ NextRequest(c)

Spec == Init /\ [][Next]_vars

-----------------------------------------------------------------------------
(* parseRangeHeader on its own *)

InitParse ==
    /\ rangeHeader \in Headers
    /\ fileSize \in Sizes
    /\ result = Pending
    /\ disk = [backup |-> PlainFile, file |-> PlainFile]
    /\ Quiet

Parse ==
    /\ result = Pending
    /\ result' = parseRangeHeader(rangeHeader, fileSize)
    /\ UNCHANGED <<rangeHeader, fileSize, handlerVars>>

NextParse == Parse

SpecParse == InitParse /\ [][NextParse]_vars

-----------------------------------------------------------------------------
(* Properties of the handlers, checked under Spec *)

Answered(c) == pc[c] \in {"return", "done"}

IsGet(c) == pc[c] # "idle" /\ req[c].method = "GET"

IsHead(c) == pc[c] # "idle" /\ req[c].method = "HEAD"

\* the GET got past its token, server and single-use test
PastToken(c) ==
    IsGet(c) /\ (pc[c] \in {"open", "serve", "return"}
                   \/ (pc[c] = "done" /\ resp[c].exit \notin {"token", "server", "replay"}))

\* C1: once a GET has consumed a token (IsUniqueRequest returned true for
\* it), every later GET with that token, of either kind, is answered 404
\* not-found at once: it opens nothing and streams no body byte, whatever
\* is on disk.
C1_ReplayedGetNotFound ==
    \A c \in Conns :
        (IsGet(c) /\ ~req[c].fresh) =>
            /\ pc[c] = "done"
            /\ resp[c].status = 404
            /\ resp[c].json = ResourceNotFound
            /\ resp[c].sent = 0
            /\ handle[c].opens = 0

\* a replayed GET was turned away while the server and the file exist
C1_Witness ==
    \E c \in Conns :
        /\ IsGet(c) /\ ~req[c].fresh /\ pc[c] = "done"
        /\ resp[c].status = 404
        /\ ManagerGet(ParseToken(req[c].kind, req[c].token).ServerUuid)
        /\ disk[req[c].kind].type = "file"

\* a step of a HEAD handler on connection c
HeadStep(c) == pc'[c] # pc[c] /\ req'[c].method = "HEAD"

\* two finished HEADs with the same token of the same kind answered alike
HeadsAgree ==
    \A a, b \in Conns :
        (/\ IsHead(a) /\ IsHead(b) /\ pc[a] = "done" /\ pc[b] = "done"
         /\ req[a].kind = req[b].kind /\ req[a].token = req[b].token)
            => resp[a] = resp[b]

\* a GET whose token parses, names a server of the node and was consumed by
\* no earlier GET is not turned away as replayed
FreshGetAccepted ==
    \A c \in Conns :
        (/\ IsGet(c) /\ req[c].fresh
         /\ ParseToken(req[c].kind, req[c].token).err = ""
         /\ ManagerGet(ParseToken(req[c].kind, req[c].token).ServerUuid))
            => PastToken(c)

\* C2: no step of a HEAD handler changes the token store, so the store
\* holds only what GETs consumed; HEADs with the same token answer alike
\* (the same status and headers), and a GET after them with a token no GET
\* has consumed is accepted.
C2_HeadLeavesLedger ==
    /\ [](consumed \subseteq spent /\ HeadsAgree /\ FreshGetAccepted)
    /\ [][\A c \in Conns : HeadStep(c) => consumed' = consumed]_vars

\* a HEAD answered 200 with its headers, and a GET that came after it with
\* the same token got past the single-use test
C2_Witness ==
    \E c \in Conns : \E o \in Conns \ {c} :
        /\ IsGet(c) /\ req[c].afterHead /\ PastToken(c)
        /\ IsHead(o) /\ pc[o] = "done" /\ resp[o].status = 200
        /\ resp[o].header["Accept-Ranges"] = Text("bytes")
        /\ req[o].kind = req[c].kind /\ req[o].token = req[c].token

\* C3: a GET whose resource turns out to be a directory never has status
\* 200 or 206, and is answered 404 not-found, with the file handler and
\* with the backup handler.
C3_DirectoryGetNotFound ==
    \A c \in Conns :
        (PastToken(c) /\ UuidParse(ParseToken(req[c].kind, req[c].token).Target) = ""
           /\ disk[req[c].kind].type = "dir")
            => /\ resp[c].status \notin {200, 206}
               /\ Answered(c) => (resp[c].status = 404 /\ resp[c].json = ResourceNotFound)

\* which of the three not-found causes a finished GET ran into
NotFoundCause(c) ==
    IF ~(IsGet(c) /\ pc[c] = "done") THEN "none"
    ELSE IF resp[c].exit = "replay" THEN "replayed"
    ELSE IF PastToken(c) /\ resp[c].exit # "uuid" /\ disk[req[c].kind].type = "missing"
    THEN "missing"
    ELSE IF PastToken(c) /\ resp[c].exit # "uuid" /\ disk[req[c].kind].type = "dir"
    THEN "directory"
    ELSE "none"

\* C4: GETs of the same kind that fail for a missing resource, for a
\* consumed token or for a directory get the same status and the same body.
C4_NotFoundUniform ==
    \A a, b \in Conns :
        (/\ NotFoundCause(a) # "none" /\ NotFoundCause(b) # "none"
         /\ req[a].kind = req[b].kind)
            => /\ resp[a].status = resp[b].status
               /\ resp[a].json = resp[b].json
               /\ resp[a].sent = resp[b].sent

\* what lies behind the token of the request on connection c
Target(c) == disk[req[c].kind]

\* the GET on connection c came to its Range header: it answered from the
\* directory test on, and req[c].range is the header it read
Served(c) ==
    /\ IsGet(c) /\ Answered(c)
    /\ resp[c].exit \in {"dir", "range", "seek", "sent", "cut"}

\* the GET on connection c handed its Range header to parseRangeHeader
RangeParsed(c) ==
    Served(c) /\ ~RejectsDirectory(req[c].kind, Stat(Target(c)))

\* what parseRangeHeader made of the Range header of the request
Asked(c) == parseRangeHeader(req[c].range, Target(c).size)

\* "bytes s-e/T" and "bytes */T" as a client reads them
ContentRange(s, e, t) ==
    <<"b", "y", "t", "e", "s", " ">> \o FormatInt(s) \o <<"-">> \o FormatInt(e)
      \o <<"/">> \o FormatInt(t)

ContentRangeStar(t) == <<"b", "y", "t", "e", "s", " ", "*", "/">> \o FormatInt(t)

C12_FullContent ==
    \A c \in Conns :
        (RangeParsed(c) /\ Target(c).type = "file" /\ req[c].range = <<>>) =>
            /\ resp[c].status = 200
            /\ resp[c].header["Content-Length"] = FormatInt(Target(c).size)
            /\ resp[c].header["Content-Range"] = <<>>
            /\ resp[c].from = 0
            /\ resp[c].sent <= Target(c).size
            /\ resp[c].exit = "sent" => resp[c].sent = Target(c).size
            /\ resp[c].exit \in {"sent", "cut"}
            /\ ~resp[c].aborted

\* a backup of two bytes was sent whole with status 200 and Content-Length 2
C12_Witness ==
    \E c \in Conns :
        /\ RangeParsed(c) /\ req[c].kind = "backup" /\ req[c].range = <<>>
        /\ Target(c) = [type |-> "file", size |-> 2]
        /\ resp[c].status = 200
        /\ resp[c].header["Content-Length"] = <<"2">>
        /\ resp[c].exit = "sent" /\ resp[c].sent = 2

\* the headers and the marks a 200 or 206 answer leaves, Content-Range aside
SuccessOnlyHeaders == {"Content-Length", "Content-Disposition", "Content-Type",
                       "Accept-Ranges", "Last-Modified"}

\* C13: whenever parseRangeHeader returns an error in a GET, the answer is
\* status 416 with Content-Range "bytes */T", T the total size; no body
\* byte is written, and neither a header of the 200 / 206 answers nor their
\* status is set.
C13_RangeNotSatisfiable ==
    \A c \in Conns :
        (RangeParsed(c) /\ Asked(c).kind = "error") =>
            /\ resp[c].status = 416
            /\ resp[c].aborted
            /\ resp[c].header["Content-Range"] = ContentRangeStar(Target(c).size)
            /\ resp[c].sent = 0
            /\ resp[c].buffer = 0
            /\ \A h \in SuccessOnlyHeaders : resp[c].header[h] = <<>>
            /\ resp[c].exit = "range"

\* "bytes=9-" on a file of two bytes was answered 416 with "bytes */2"
C13_Witness ==
    \E c \in Conns :
        /\ RangeParsed(c) /\ Target(c) = [type |-> "file", size |-> 2]
        /\ req[c].range = BytesEq \o <<"9", "-">>
        /\ resp[c].status = 416
        /\ resp[c].header["Content-Range"]
             = <<"b", "y", "t", "e", "s", " ", "*", "/", "2">>
        /\ resp[c].sent = 0

\* the requests on a and b are GETs of the same kind with the same token
SameTokenGets(a, b) ==
    /\ a # b /\ IsGet(a) /\ IsGet(b)
    /\ req[a].kind = req[b].kind /\ req[a].token = req[b].token

\* the answer of a GET that was turned away before anything was opened
TurnedAway(c) ==
    /\ pc[c] = "done"
    /\ resp[c].status = 404 /\ resp[c].json = ResourceNotFound
    /\ resp[c].sent = 0
    /\ handle[c].opens = 0

\* a step at which a GET on connection c gets past the test of lines 169 / 318
GetPasses(c) == pc[c] = "idle" /\ pc'[c] = "open" /\ req'[c].method = "GET"

\* C14: with IsUniqueRequest an atomic check-and-mark, however the stages
\* of concurrent GETs with the same token interleave, a GET passes the
\* token test only when no GET with that token passed it before; of two
\* such GETs at most one is past the test, and the other is answered 404
\* not-found without opening or sending anything.
C14_SingleSpend ==
    /\ [](\A a, b \in Conns :
            (SameTokenGets(a, b) /\ PastToken(a)) => TurnedAway(b))
    /\ [][\A c \in Conns :
            GetPasses(c) => /\ <<req'[c].kind, req'[c].token>> \notin spent
                            /\ <<req'[c].kind, req'[c].token>> \in spent']_vars

\* while one GET was still at work on the file, a GET with the same token
\* came in on the other connection and was turned away
C14_Witness ==
    \E a, b \in Conns :
        /\ SameTokenGets(a, b)
        /\ pc[a] = "serve" /\ handle[a].open
        /\ Target(a).type = "file"
        /\ TurnedAway(b) /\ resp[b].exit = "replay"

\* C15: in every HEAD and GET, whichever way the handler leaves, the
\* resource is opened at most once, it is open only between the open and
\* the handler's return, and no handler that has returned (and no idle
\* connection) holds an open handle.
C15_HandleReleased ==
    \A c \in Conns :
        /\ handle[c].opens <= 1
        /\ handle[c].open => (handle[c].opens = 1 /\ pc[c] \in {"head", "serve", "return"})
        /\ pc[c] \in {"idle", "done"} => ~handle[c].open
        /\ (pc[c] = "done" /\ resp[c].exit \in {"dir", "head", "range", "seek", "sent", "cut"})
             => handle[c].opens = 1
        /\ (pc[c] = "done"
              /\ resp[c].exit \in {"token", "server", "replay", "uuid", "missing",
                                   "locate", "open"})
             => handle[c].opens = 0

\* one GET has returned after a copy cut short and another after a failed
\* Seek, each having opened its file once, and both files are closed
C15_Witness ==
    \E a, b \in Conns :
        /\ a # b /\ pc[a] = "done" /\ pc[b] = "done"
        /\ resp[a].exit = "cut" /\ resp[b].exit = "seek"
        /\ handle[a].opens = 1 /\ handle[b].opens = 1
        /\ ~handle[a].open /\ ~handle[b].open

\* C16: once a GET has set status 200 or 206 it neither aborts the request
\* nor hands an error to the error middleware: every error answer comes
\* before the success status and headers.
C16_NoFailureAfterCommit ==
    \A c \in Conns :
        (IsGet(c) /\ resp[c].status \in {200, 206}) =>
            /\ ~resp[c].aborted
            /\ resp[c].errors = <<>>

\* C17: when the copy to the client is cut short, in a full or a partial
\* transfer of either kind, the handler stops copying, keeps the 200 / 206
\* it set, answers with no error and no abort, writes the Debug line, and
\* has closed the resource once it has returned.
C17_MidStreamFailure ==
    \A c \in Conns :
        (IsGet(c) /\ Answered(c) /\ resp[c].exit = "cut") =>
            /\ resp[c].status = (IF Asked(c).kind = "range" THEN 206 ELSE 200)
            /\ resp[c].sent < (IF Asked(c).kind = "range" THEN Asked(c).size
                                                          ELSE Target(c).size)
            /\ ~resp[c].aborted
            /\ resp[c].errors = <<>>
            /\ resp[c].json = ""
            /\ resp[c].logged
            /\ pc[c] = "done" => ~handle[c].open

\* a partial transfer of two bytes broke off after the first, and the
\* handler has returned
C17_Witness ==
    \E c \in Conns :
        /\ IsGet(c) /\ pc[c] = "done" /\ resp[c].exit = "cut"
        /\ resp[c].status = 206
        /\ Asked(c).size = 2 /\ resp[c].sent = 1
        /\ resp[c].logged /\ ~handle[c].open

\* a GET with the token of the request on c has answered 200 or 206
SucceededWith(c) ==
    \E o \in Conns :
        /\ IsGet(o) /\ req[o].kind = req[c].kind /\ req[o].token = req[c].token
        /\ resp[o].status \in {200, 206}

\* C18: the token of a GET that got past the token test and ended in a
\* failure answer (416, not-found, an error on open) is not in the token
\* store unless a GET with it answered 200 or 206: only a successful GET
\* consumes.
C18_ConsumedOnSuccessOnly ==
    \A c \in Conns :
        (/\ IsGet(c) /\ Answered(c) /\ PastToken(c)
         /\ resp[c].status \notin {200, 206}
         /\ resp[c].exit \in {"range", "dir", "missing", "locate", "open"}
         /\ ~SucceededWith(c))
            => ParseToken(req[c].kind, req[c].token).UniqueId \notin consumed

\* the buffer size of the threshold table: File 1 MiB above 100 MiB,
\* Backup 2 MiB above 1 GiB, 64 KiB otherwise
TableBuffer(kind, size) ==
    IF kind = "file" /\ size > 100 * 1024 * 1024 THEN 1024 * 1024
    ELSE IF kind = "backup" /\ size > 1024 * 1024 * 1024 THEN 2 * 1024 * 1024
    ELSE 64 * 1024

\* C20: every GET that streams a body, with status 200 or with status 206,
\* reads the resource through one buffer of the size the threshold table
\* gives for its kind and total size.
C20_BufferByTable ==
    \A c \in Conns :
        (/\ IsGet(c) /\ Answered(c)
         /\ resp[c].exit \in {"sent", "cut"}
         /\ resp[c].status \in {200, 206})
            => resp[c].buffer = TableBuffer(req[c].kind, Target(c).size)

\* a step at which a GET on connection c is turned away because its token
\* does not parse or names a server the node does not run
GetFailsBeforeLedger(c) ==
    /\ pc[c] = "idle" /\ pc'[c] = "done"
    /\ req'[c].method = "GET"
    /\ resp'[c].exit \in {"token", "server"}

\* the raw tokens whose payload parses and names a server of the node
KnownServerIds ==
    {<<kind, raw>> : kind \in Kinds, raw \in {"good", "baduuid"}}

\* C21: a GET whose token fails to parse, or whose token names a server the
\* manager does not know, leaves the token store as it found it:
\* IsUniqueRequest is asked only once the server was found, so the store
\* never holds the id of such a token.
C21_LedgerUntouched ==
    /\ [](consumed \subseteq KnownServerIds)
    /\ [][\A c \in Conns : GetFailsBeforeLedger(c) => consumed' = consumed]_vars

\* with a token already in the store, one GET was turned away for an
\* unknown server and another for a token that does not parse, and the
\* store holds neither of their ids
C21_Witness ==
    \E a, b \in Conns :
        /\ IsGet(a) /\ pc[a] = "done" /\ resp[a].exit = "server"
        /\ req[a].token = "stray" /\ resp[a].status = 404
        /\ IsGet(b) /\ pc[b] = "done" /\ resp[b].exit = "token"
        /\ req[b].token = "forged"
        /\ consumed # {}
        /\ <<req[a].kind, "stray">> \notin consumed
        /\ <<req[b].kind, "forged">> \notin consumed

-----------------------------------------------------------------------------
(* Properties of parseRangeHeader, checked under SpecParse *)

Parsed == result # Pending

\* the numbers the headers of the properties are written with
Offsets == 0..(2 * LargeSize)

\* "bytes=s-e", "bytes=-n" and "bytes=n-" as a client writes them
ClosedHeader(s, e) == BytesEq \o FormatInt(s) \o <<"-">> \o FormatInt(e)

SuffixHeader(n) == BytesEq \o <<"-">> \o FormatInt(n)

OpenHeader(n) == BytesEq \o FormatInt(n) \o <<"-">>

Expect(s, e, n) == [kind |-> "range", start |-> s, end |-> e, size |-> n]

IsError == result.kind = "error"

\* C5: for every size S and all 0 <= start <= end < S, "bytes=start-end"
\* parses without error to {start, end, size = end - start + 1}.
C5_ClosedRange ==
    Parsed =>
        \A s, e \in 0..(fileSize - 1) :
            (s <= e /\ rangeHeader = ClosedHeader(s, e))
                => result = Expect(s, e, e - s + 1)

\* a closed range with a two-digit end was parsed
C5_Witness ==
    /\ Parsed
    /\ \E s, e \in 0..(fileSize - 1) :
         /\ s < e /\ e >= 10
         /\ rangeHeader = ClosedHeader(s, e)
         /\ result = Expect(s, e, e - s + 1)

\* C6 as claimed: for every size S and every suffix length N, "bytes=-N"
\* yields start = 0, end = S-1 when N >= S and start = S-N, end = S-1 when
\* N < S.
C6_SuffixAnyLength ==
    Parsed =>
        /\ \A n \in Offsets :
             rangeHeader = SuffixHeader(n)
                 => /\ result.kind = "range"
                    /\ result.start = (IF n >= fileSize THEN 0 ELSE fileSize - n)
                    /\ result.end = fileSize - 1
        /\ rangeHeader = BytesEq \o <<"-">> \o Huge
             => (result.kind = "range" /\ result.start = 0 /\ result.end = fileSize - 1)

\* C6 amended: for every size S >= 1 and every suffix length N >= 1 that
\* fits 64 signed bits, "bytes=-N" yields start = 0, end = S-1 when N >= S
\* and start = S-N, end = S-1 when N < S (size = end - start + 1); with
\* N = 0, with S = 0, or with N past 64 bits it is an error.
C6_SuffixRange ==
    Parsed =>
        /\ \A n \in Offsets :
             rangeHeader = SuffixHeader(n)
                 => IF n >= 1 /\ fileSize >= 1
                    THEN result = (IF n >= fileSize
                                   THEN Expect(0, fileSize - 1, fileSize)
                                   ELSE Expect(fileSize - n, fileSize - 1, n))
                    ELSE IsError
        /\ rangeHeader = BytesEq \o <<"-">> \o Huge => IsError

\* a suffix shorter than the resource, and one clamped to the resource
C6_Witness ==
    /\ Parsed /\ result.kind = "range"
    /\ fileSize = LargeSize
    /\ \E n \in Offsets :
         /\ rangeHeader = SuffixHeader(n)
         /\ n > 1 /\ n < fileSize
         /\ result.start = fileSize - n

\* C7: for every size S, "bytes=N-" yields start = N, end = S-1, size = S-N
\* when 0 <= N < S, and is an error when N >= S.
C7_OpenRange ==
    Parsed =>
        /\ \A n \in Offsets :
             rangeHeader = OpenHeader(n)
                 => IF n < fileSize
                    THEN result = Expect(n, fileSize - 1, fileSize - n)
                    ELSE IsError
        /\ rangeHeader = BytesEq \o Huge \o <<"-">> => IsError

\* an open range from a two-digit offset was parsed
C7_Witness ==
    /\ Parsed /\ result.kind = "range"
    /\ \E n \in Offsets :
         /\ rangeHeader = OpenHeader(n)
         /\ n >= 10
         /\ result = Expect(n, fileSize - 1, fileSize - n)

\* a decimal integer as a client may write it: an optional sign and one or
\* more digits
IsNumeral(s) ==
    LET ds == IF Len(s) > 0 /\ s[1] \in {"+", "-"} THEN Tail(s) ELSE s
    IN  Len(ds) > 0 /\ \A i \in 1..Len(ds) : ds[i] \in Digits

\* an unsigned numeral short enough to be read as a number here
IsOffset(s) == Len(s) \in 1..9 /\ \A i \in 1..Len(s) : s[i] \in Digits

\* what follows "bytes="
RangeText == SubSeq(rangeHeader, Len(BytesEq) + 1, Len(rangeHeader))

IsList == HasPrefix(rangeHeader, BytesEq) /\ Contains(rangeHeader, ",")

\* the first of the comma-separated ranges, as written
WrittenFirst == Split(RangeText, ",")[1]

\* a text without the white space around it
RECURSIVE Stripped(_)
Stripped(s) ==
    IF Len(s) > 0 /\ s[1] \in WhiteSpace THEN Stripped(Tail(s))
    ELSE IF Len(s) > 0 /\ s[Len(s)] \in WhiteSpace
    THEN Stripped(SubSeq(s, 1, Len(s) - 1))
    ELSE s

\* the range the header asks for: the only one, or the first of a list
AskedRange == IF IsList THEN Stripped(WrittenFirst) ELSE RangeText

\* C8: a non-empty header never parses to NoRange, and is an error when it
\* is the bare "bytes=", when it lacks the "bytes=" prefix, when the start,
\* the end or the suffix length of its range is no number, when start > end,
\* when end >= S and when start >= S (of a list, the first range counts; a
\* number is an optionally signed decimal numeral).
C8_MalformedIsError ==
    (Parsed /\ rangeHeader # <<>>) =>
        /\ result # NoRange
        /\ rangeHeader = BytesEq => IsError
        /\ ~HasPrefix(rangeHeader, BytesEq) => IsError
        /\ HasPrefix(rangeHeader, BytesEq) =>
             LET r == AskedRange
             IN  /\ (Len(r) > 0 /\ r[1] = "-" /\ ~IsNumeral(Tail(r))) => IsError
                 /\ (Len(r) > 0 /\ r[1] # "-" /\ r[Len(r)] = "-"
                       /\ ~IsNumeral(SubSeq(r, 1, Len(r) - 1))) => IsError
                 /\ (Len(r) > 0 /\ r[1] # "-" /\ r[Len(r)] = "-"
                       /\ IsOffset(SubSeq(r, 1, Len(r) - 1))
                       /\ DigitsValue(SubSeq(r, 1, Len(r) - 1)) >= fileSize) => IsError
                 /\ \A p \in 2..(Len(r) - 1) :
                      r[p] = "-" =>
                        LET a == SubSeq(r, 1, p - 1)
                            b == SubSeq(r, p + 1, Len(r))
                        IN  /\ (~IsNumeral(a) \/ ~IsNumeral(b)) => IsError
                            /\ (IsOffset(a) /\ IsOffset(b)
                                  /\ (\/ DigitsValue(a) > DigitsValue(b)
                                      \/ DigitsValue(b) >= fileSize
                                      \/ DigitsValue(a) >= fileSize)) => IsError

\* "bytes=2-1" on a resource that holds both offsets was refused
C8_Witness ==
    /\ Parsed /\ IsError
    /\ rangeHeader = ClosedHeader(2, 1)
    /\ fileSize > 2

\* both are errors, both are NoRange, or both are the same rangeSpec
SameOutcome(a, b) == a.kind = b.kind /\ (a.kind = "range" => a = b)

\* C9 as claimed: "bytes=R1,R2,...,Rk" parses to what "bytes=R1" parses to
\* (two errors count as equal whatever their texts).
C9_FirstRangeAsWritten ==
    (Parsed /\ IsList) =>
        SameOutcome(result, parseRangeHeader(BytesEq \o WrittenFirst, fileSize))

\* C9 amended: "bytes=R1,R2,...,Rk" parses to what "bytes=" followed by R1
\* without its leading and trailing white space parses to, whatever
\* R2..Rk are (the same rangeSpec or the same error); so to what "bytes=R1"
\* parses to when R1 has none.
C9_FirstRangeOnly ==
    (Parsed /\ IsList) =>
        /\ result = parseRangeHeader(BytesEq \o Stripped(WrittenFirst), fileSize)
        /\ Stripped(WrittenFirst) = WrittenFirst
             => result = parseRangeHeader(BytesEq \o WrittenFirst, fileSize)

\* a list whose first range is good and whose second is not was parsed to
\* the first
C9_Witness ==
    /\ Parsed /\ IsList
    /\ WrittenFirst = <<"1", "-">>
    /\ RangeText = <<"1", "-", ",", "x">>
    /\ result = Expect(1, fileSize - 1, fileSize - 1)

\* what a GET of the kind answers for the header on a regular file of the
\* size
Answer(kind) ==
    Respond(kind, Stat([type |-> "file", size |-> fileSize]), rangeHeader)

\* C10: on a resource of size 0 every non-empty Range header is an error,
\* so the GET, of either kind, is answered 416 with "bytes */0" and no body.
C10_EmptyResource ==
    (Parsed /\ fileSize = 0 /\ rangeHeader # <<>>) =>
        /\ IsError
        /\ \A kind \in Kinds :
             /\ Answer(kind).resp.status = 416
             /\ Answer(kind).resp.header["Content-Range"]
                  = <<"b", "y", "t", "e", "s", " ", "*", "/", "0">>
             /\ ~Answer(kind).copy

\* a suffix range was refused on a resource of size 0, and the GET answers
\* 416 for it
C10_Witness ==
    /\ Parsed /\ IsError /\ fileSize = 0
    /\ rangeHeader = SuffixHeader(1)
    /\ Answer("file").resp.status = 416

\* C19: every rangeSpec parseRangeHeader returns, whatever the header and
\* the size S, has 0 <= start <= end < S and size = end - start + 1, so
\* 1 <= size <= S.
C19_RangeWithinResource ==
    (Parsed /\ result.kind = "range") =>
        /\ 0 <= result.start
        /\ result.start <= result.end
        /\ result.end < fileSize
        /\ result.size = result.end - result.start + 1
        /\ 1 <= result.size /\ result.size <= fileSize

\* a rangeSpec strictly inside the resource was returned
C19_Witness ==
    /\ Parsed /\ result.kind = "range"
    /\ 0 < result.start /\ result.start < result.end
    /\ result.end < fileSize - 1
    /\ result.size = result.end - result.start + 1

=============================================================================
